---- MODULE Spec2Model ----
(***************************************************************************)
(* Model of grill_proxy/src/peripheral.rs:                                 *)
(* advertise_and_find_proxy_device_name, one run of the function together  *)
(* with its environment (the adapter, the remote central, the operator's   *)
(* stdin).  Program steps are cut at the function's await points.          *)
(***************************************************************************)
EXTENDS Integers, Sequences, FiniteSets, TLC

(* ---------------------------- bounds ----------------------------------- *)
MaxMtu == 2        \* req.mtu() ranges over 1..MaxMtu
MaxLen == 2        \* longest byte sequence the central writes
MaxEvents == 3     \* control events the GATT server produces in one run

(* Bytes the central may send: NUL, 'p', a 2-byte lead (0xC3), a          *)
(* continuation byte (0xA9), a 3-byte lead (0xE2) and an invalid byte.    *)
Bytes == {0, 112, 195, 169, 226, 255}

Min(a, b) == IF a <= b THEN a ELSE b

RECURSIVE SeqsUpTo(_)
SeqsUpTo(n) ==
    IF n = 0 THEN {<<>>}
    ELSE LET S == SeqsUpTo(n - 1)
         IN S \cup {Append(s, b) : s \in {t \in S : Len(t) = n - 1}, b \in Bytes}

Payloads == SeqsUpTo(MaxLen)
Mtus == 1..MaxMtu

(* io::Error kinds accept()/read() may fail with; adapter rejections.     *)
IoErrors == {"ConnectionReset"}
AdapterErrors == {"NotReady"}

(* ------------------------ std::str::from_utf8 -------------------------- *)
\* core::str::validations::utf8_char_width
utf8_char_width(b) ==
    IF b >= 194 /\ b <= 223 THEN 2
    ELSE IF b >= 224 /\ b <= 239 THEN 3
    ELSE IF b >= 240 /\ b <= 244 THEN 4
    ELSE 0

\* (byte as i8) < -64, i.e. 0x80..=0xBF
IsCont(b) == b >= 128 /\ b <= 191

Utf8Err(upTo, elen) == [valid |-> FALSE, valid_up_to |-> upTo, error_len |-> elen]

\* second byte admissible after a 3-byte lead
Second3(first, b) ==
    \/ first = 224 /\ b >= 160 /\ b <= 191
    \/ first >= 225 /\ first <= 236 /\ b >= 128 /\ b <= 191
    \/ first = 237 /\ b >= 128 /\ b <= 159
    \/ first >= 238 /\ first <= 239 /\ b >= 128 /\ b <= 191

\* second byte admissible after a 4-byte lead
Second4(first, b) ==
    \/ first = 240 /\ b >= 144 /\ b <= 191
    \/ first >= 241 /\ first <= 243 /\ b >= 128 /\ b <= 191
    \/ first = 244 /\ b >= 128 /\ b <= 143

\* run_utf8_validation from 1-based position i; error_len 0 stands for None
RECURSIVE run_utf8_validation(_, _)
run_utf8_validation(v, i) ==
    IF i > Len(v) THEN [valid |-> TRUE, valid_up_to |-> Len(v), error_len |-> 0]
    ELSE LET first == v[i]
             old == i - 1
             w == utf8_char_width(first)
         IN IF first < 128 THEN run_utf8_validation(v, i + 1)
            ELSE IF w = 2 THEN
                 IF i + 1 > Len(v) THEN Utf8Err(old, 0)
                 ELSE IF ~IsCont(v[i + 1]) THEN Utf8Err(old, 1)
                 ELSE run_utf8_validation(v, i + 2)
            ELSE IF w = 3 THEN
                 IF i + 1 > Len(v) THEN Utf8Err(old, 0)
                 ELSE IF ~Second3(first, v[i + 1]) THEN Utf8Err(old, 1)
                 ELSE IF i + 2 > Len(v) THEN Utf8Err(old, 0)
                 ELSE IF ~IsCont(v[i + 2]) THEN Utf8Err(old, 2)
                 ELSE run_utf8_validation(v, i + 3)
            ELSE IF w = 4 THEN
                 IF i + 1 > Len(v) THEN Utf8Err(old, 0)
                 ELSE IF ~Second4(first, v[i + 1]) THEN Utf8Err(old, 1)
                 ELSE IF i + 2 > Len(v) THEN Utf8Err(old, 0)
                 ELSE IF ~IsCont(v[i + 2]) THEN Utf8Err(old, 2)
                 ELSE IF i + 3 > Len(v) THEN Utf8Err(old, 0)
                 ELSE IF ~IsCont(v[i + 3]) THEN Utf8Err(old, 3)
                 ELSE run_utf8_validation(v, i + 4)
            ELSE Utf8Err(old, 1)

from_utf8(v) == run_utf8_validation(v, 1)

(* ------------------------------ state ---------------------------------- *)
VARIABLES
    pc,            \* "start" | "advertised" | "select" | "reading" | "done"
    adv_handle,    \* _adv_handle: "none" | "live" | "dropped"
    app_handle,    \* _app_handle: "none" | "live" | "dropped"
    advActive,     \* advertisements registered with the adapter
    appActive,     \* GATT applications registered with the adapter
    advReleases,   \* times an advertisement handle was dropped
    appReleases,   \* times an application handle was dropped
    char_control,  \* control events queued on the characteristic's stream
    closed,        \* the stream's producer is gone
    stdin,         \* "pending" | "line" | "eof" | "error"
    mtu,           \* req.mtu() of the request being handled, 0 if none
    read_buf,      \* vec![0; req.mtu()], filled by the read
    num_bytes,     \* bytes the read returned
    wire,          \* bytes the central wrote for the accepted request
    returns,       \* results handed to the caller, in order
    cause,         \* the branch the run ended on
    cnt,           \* history counters
    iter,          \* select iterations resolved so far
    ran            \* select branches whose handler ran in iteration iter

vars == <<pc, adv_handle, app_handle, advActive, appActive, advReleases,
          appReleases, char_control, closed, stdin, mtu, read_buf, num_bytes,
          wire, returns, cause, cnt, iter, ran>>

handles == <<adv_handle, app_handle, advActive, appActive, advReleases, appReleases>>
request == <<mtu, read_buf, num_bytes, wire>>
env == <<char_control, closed, stdin>>

WriteEvt(m) == [type |-> "Write", mtu |-> m]
\* a notify request; its mtu is only written to the debug log
NotifyEvt == [type |-> "Notify"]

Zeros(n) == [i \in 1..n |-> 0]

(* ------------------------------ results -------------------------------- *)
Ok(str) == [ok |-> TRUE, value |-> str]
Err(e) == [ok |-> FALSE, error |-> e]

\* impl From<std::io::Error> for bluer::Error, applied by `?`
IoError(k) == [kind |-> "Io", message |-> k, detail |-> <<>>]

\* the bluer::Error adapter.advertise / serve_gatt_application return
AdapterError(k) == [kind |-> k, message |-> "adapter", detail |-> <<>>]

\* "Written proxy device name is not a UTF8-encoded string: {e}"
DecodeError(e) ==
    [kind |-> "Failed",
     message |-> "Written proxy device name is not a UTF8-encoded string",
     detail |-> <<e.valid_up_to, e.error_len>>]

\* the error after the loop
FailedToCollect ==
    [kind |-> "Failed",
     message |-> "Failed to collect a proxy device name",
     detail |-> <<>>]

Init ==
    /\ pc = "start"
    /\ adv_handle = "none"
    /\ app_handle = "none"
    /\ advActive = 0
    /\ appActive = 0
    /\ advReleases = 0
    /\ appReleases = 0
    /\ char_control = <<>>
    /\ closed = FALSE
    /\ stdin = "pending"
    /\ mtu = 0
    /\ read_buf = <<>>
    /\ num_bytes = 0
    /\ wire = <<>>
    /\ returns = <<>>
    /\ cause = "none"
    /\ cnt = [produced |-> 0, taken |-> 0, accepts |-> 0, reads |-> 0,
              decodes |-> 0, notifies |-> 0, advAttempts |-> 0,
              appAttempts |-> 0, leftover |-> 0]
    /\ iter = 0
    /\ ran = {}

(* ------------------------- scope exit (Drop) --------------------------- *)
\* DropLocals that releases the application handle whether or not it was
\* ever bound
DropLocalsUnbound ==
    /\ app_handle' = "dropped"
    /\ appReleases' = appReleases + 1
    /\ appActive' = IF app_handle = "live" THEN appActive - 1 ELSE appActive
    /\ adv_handle' = IF adv_handle = "live" THEN "dropped" ELSE adv_handle
    /\ advReleases' = IF adv_handle = "live" THEN advReleases + 1 ELSE advReleases
    /\ advActive' = IF adv_handle = "live" THEN advActive - 1 ELSE advActive

\* DropLocals with the advertisement handle leaked (never dropped)
DropLocalsLeakAdv ==
    /\ app_handle' = IF app_handle = "live" THEN "dropped" ELSE app_handle
    /\ appReleases' = IF app_handle = "live" THEN appReleases + 1 ELSE appReleases
    /\ appActive' = IF app_handle = "live" THEN appActive - 1 ELSE appActive
    /\ UNCHANGED <<adv_handle, advReleases, advActive>>

\* Leaving the function drops its locals: the two handles if they were
\* bound, and the control stream with whatever is still queued on it.
DropLocals ==
    /\ app_handle' = IF app_handle = "live" THEN "dropped" ELSE app_handle
    /\ appReleases' = IF app_handle = "live" THEN appReleases + 1 ELSE appReleases
    /\ appActive' = IF app_handle = "live" THEN appActive - 1 ELSE appActive
    /\ adv_handle' = IF adv_handle = "live" THEN "dropped" ELSE adv_handle
    /\ advReleases' = IF adv_handle = "live" THEN advReleases + 1 ELSE advReleases
    /\ advActive' = IF adv_handle = "live" THEN advActive - 1 ELSE advActive

\* `return res` / `?` / falling off the end, on branch why; c are the
\* counters and q the events still queued when the function is left
Return(res, why, c, q) ==
    /\ pc' = "done"
    /\ returns' = Append(returns, res)
    /\ cause' = why
    /\ cnt' = [c EXCEPT !.leftover = Len(q)]
    /\ char_control' = <<>>
    /\ DropLocals

Bump(f) == [cnt EXCEPT ![f] = @ + 1]

(* ----------------------------- set-up ---------------------------------- *)
\* Advertise with the `.await` missing: the registration never runs
AdvertiseNotAwaited ==
    /\ pc = "start"
    /\ pc' = "advertised"
    /\ cnt' = Bump("advAttempts")
    /\ UNCHANGED <<handles, char_control, returns, cause>>
    /\ UNCHANGED <<closed, stdin, request, iter, ran>>

\* Advertise bound to `_`: the handle is dropped as soon as it is returned
AdvertiseDroppedAtOnce ==
    /\ pc = "start"
    /\ \/ /\ pc' = "advertised"
          /\ adv_handle' = "dropped"
          /\ advReleases' = advReleases + 1
          /\ cnt' = Bump("advAttempts")
          /\ UNCHANGED <<app_handle, appActive, advActive, appReleases,
                         char_control, returns, cause>>
       \/ \E e \in AdapterErrors :
            Return(Err(AdapterError(e)), "advertise_failed", Bump("advAttempts"), <<>>)
    /\ UNCHANGED <<closed, stdin, request, iter, ran>>

\* let _adv_handle = Some(adapter.advertise(le_advertisement).await?);
Advertise ==
    /\ pc = "start"
    /\ \/ /\ pc' = "advertised"
          /\ adv_handle' = "live"
          /\ advActive' = advActive + 1
          /\ cnt' = Bump("advAttempts")
          /\ UNCHANGED <<app_handle, appActive, advReleases, appReleases,
                         char_control, returns, cause>>
       \/ \E e \in AdapterErrors :
            Return(Err(AdapterError(e)), "advertise_failed", Bump("advAttempts"), <<>>)
    /\ UNCHANGED <<closed, stdin, request, iter, ran>>

\* let _app_handle = Some(adapter.serve_gatt_application(app).await?);
ServeGatt ==
    /\ pc = "advertised"
    /\ \/ /\ pc' = "select"
          /\ app_handle' = "live"
          /\ appActive' = appActive + 1
          /\ cnt' = Bump("appAttempts")
          /\ UNCHANGED <<adv_handle, advActive, advReleases, appReleases,
                         char_control, returns, cause>>
       \/ \E e \in AdapterErrors :
            Return(Err(AdapterError(e)), "serve_failed", Bump("appAttempts"), <<>>)
    /\ UNCHANGED <<closed, stdin, request, iter, ran>>

(* --------------------------- tokio::select! ---------------------------- *)
\* ReadyBranches with `Ok(Some(_)) = lines.next_line()` as the pattern:
\* only a line completes the cancel branch
ReadyBranchesLineOnly ==
    (IF stdin = "line" THEN {"cancel"} ELSE {})
    \cup (IF char_control # <<>> \/ closed THEN {"event"} ELSE {})

\* branches whose future is ready when the select is polled
ReadyBranches ==
    (IF stdin # "pending" THEN {"cancel"} ELSE {})
    \cup (IF char_control # <<>> \/ closed THEN {"event"} ELSE {})

\* select! without `biased;` starts polling at a random branch, so any
\* ready branch may be the one that completes the select
SelectBranches == ReadyBranches

\* Resolve with the select also polled while the read is awaited
ResolveWhileReading(b) ==
    /\ pc \in {"select", "reading"}
    /\ b \in SelectBranches
    /\ iter' = iter + 1
    /\ ran' = {b}

\* one iteration of the loop resolves to branch b
Resolve(b) ==
    /\ pc = "select"
    /\ b \in SelectBranches
    /\ iter' = iter + 1
    /\ ran' = {b}

\* SelectCancel with the `break` missing: the failure is reported and the
\* loop goes on
SelectCancelNoBreak ==
    /\ Resolve("cancel")
    /\ returns' = Append(returns, Err(FailedToCollect))
    /\ UNCHANGED <<pc, handles, env, request, cause, cnt>>

\* _ = lines.next_line() => break,  then the Err after the loop
SelectCancel ==
    /\ Resolve("cancel")
    /\ Return(Err(FailedToCollect), "cancelled", cnt, char_control)
    /\ UNCHANGED <<closed, stdin, request>>

\* SelectClosed with `None => continue`: the ended stream is polled again
SelectClosedContinues ==
    /\ Resolve("event")
    /\ char_control = <<>>
    /\ UNCHANGED <<pc, handles, env, request, returns, cause, cnt>>

\* evt = char_control.next() => None => break,  then the Err after the loop
SelectClosed ==
    /\ Resolve("event")
    /\ char_control = <<>>
    /\ Return(Err(FailedToCollect), "closed", cnt, char_control)
    /\ UNCHANGED <<closed, stdin, request>>

\* SelectNotify that treats the unexpected event as fatal and breaks
SelectNotifyBreaks ==
    /\ Resolve("event")
    /\ char_control # <<>>
    /\ Head(char_control).type = "Notify"
    /\ Return(Err(FailedToCollect), "closed",
              [cnt EXCEPT !.taken = @ + 1, !.notifies = @ + 1], Tail(char_control))
    /\ UNCHANGED <<closed, stdin, request>>

\* Some(CharacteristicControlEvent::Notify(notifier)) => debug!(..)
SelectNotify ==
    /\ Resolve("event")
    /\ char_control # <<>>
    /\ Head(char_control).type = "Notify"
    /\ char_control' = Tail(char_control)
    /\ cnt' = [cnt EXCEPT !.taken = @ + 1, !.notifies = @ + 1]
    /\ UNCHANGED <<pc, handles, closed, stdin, request, returns, cause>>

\* Some(CharacteristicControlEvent::Write(req)) => up to the read's await:
\* read_buf = vec![0; req.mtu()]; reader = req.accept()?
SelectWrite ==
    /\ Resolve("event")
    /\ char_control # <<>>
    /\ Head(char_control).type = "Write"
    /\ mtu' = Head(char_control).mtu
    /\ read_buf' = Zeros(Head(char_control).mtu)
    /\ \/ /\ pc' = "reading"
          /\ char_control' = Tail(char_control)
          /\ cnt' = [cnt EXCEPT !.taken = @ + 1, !.accepts = @ + 1]
          /\ UNCHANGED <<handles, returns, cause>>
       \/ \E e \in IoErrors :
            Return(Err(IoError(e)), "accept_failed",
                   [cnt EXCEPT !.taken = @ + 1], Tail(char_control))
    /\ UNCHANGED <<closed, stdin, num_bytes, wire>>

(* --------------------------- write handler ----------------------------- *)
\* the buffer after a read that stored the first n bytes of s
Filled(buf, s, n) == [i \in 1..Len(buf) |-> IF i <= n THEN s[i] ELSE buf[i]]

\* trimmed_read_buf that forgets to trim: &read_buf[..]
untrimmed_read_buf(buf, n) == buf

\* &read_buf[0..num_bytes]
trimmed_read_buf(buf, n) == SubSeq(buf, 1, n)

\* Decode that accepts whatever was read (a lossy conversion)
DecodeLossy(buf, n) == Ok(trimmed_read_buf(buf, n))

RECURSIVE StripNul(_)
StripNul(t) ==
    IF t # <<>> /\ t[Len(t)] = 0 THEN StripNul(SubSeq(t, 1, Len(t) - 1)) ELSE t

\* Decode of the whole buffer with the trailing NULs trimmed afterwards
DecodeTrimNul(buf, n) ==
    LET r == from_utf8(buf)
    IN IF r.valid THEN Ok(StripNul(buf)) ELSE Err(DecodeError(r))

\* match from_utf8(trimmed_read_buf) { Ok(..) => Ok(..to_string()), Err(e) => Err(..) }
Decode(buf, n) ==
    LET t == trimmed_read_buf(buf, n)
        r == from_utf8(t)
    IN IF r.valid THEN Ok(t) ELSE Err(DecodeError(r))

\* ReadDone with `Err(_) => break` in place of `?` on the read
ReadDoneBreaksOnError ==
    /\ pc = "reading"
    /\ \/ \E s \in Payloads : \E n \in 0..Min(Len(s), mtu) :
            /\ wire' = s
            /\ num_bytes' = n
            /\ read_buf' = Filled(read_buf, s, n)
            /\ LET res == Decode(Filled(read_buf, s, n), n)
               IN Return(res, IF res.ok THEN "decoded" ELSE "decode_failed",
                         [cnt EXCEPT !.reads = @ + 1, !.decodes = @ + 1],
                         char_control)
       \/ /\ Return(Err(FailedToCollect), "read_failed", Bump("reads"), char_control)
          /\ UNCHANGED <<wire, num_bytes, read_buf>>
    /\ UNCHANGED <<closed, stdin, mtu, iter, ran>>

\* ReadDone that goes back to the loop on a decode failure (a retry)
ReadDoneRetries ==
    /\ pc = "reading"
    /\ \/ \E s \in Payloads : \E n \in 0..Min(Len(s), mtu) :
            /\ wire' = s
            /\ num_bytes' = n
            /\ read_buf' = Filled(read_buf, s, n)
            /\ LET res == Decode(Filled(read_buf, s, n), n)
               IN IF res.ok
                  THEN Return(res, "decoded",
                              [cnt EXCEPT !.reads = @ + 1, !.decodes = @ + 1],
                              char_control)
                  ELSE /\ pc' = "select"
                       /\ cnt' = [cnt EXCEPT !.reads = @ + 1, !.decodes = @ + 1]
                       /\ UNCHANGED <<handles, char_control, returns, cause>>
       \/ \E e \in IoErrors :
            /\ Return(Err(IoError(e)), "read_failed", Bump("reads"), char_control)
            /\ UNCHANGED <<wire, num_bytes, read_buf>>
    /\ UNCHANGED <<closed, stdin, mtu, iter, ran>>

\* num_bytes = reader.read(&mut read_buf).await?  and the match after it
ReadDone ==
    /\ pc = "reading"
    /\ \/ \E s \in Payloads : \E n \in 0..Min(Len(s), mtu) :
            /\ wire' = s
            /\ num_bytes' = n
            /\ read_buf' = Filled(read_buf, s, n)
            /\ LET res == Decode(Filled(read_buf, s, n), n)
               IN Return(res, IF res.ok THEN "decoded" ELSE "decode_failed",
                         [cnt EXCEPT !.reads = @ + 1, !.decodes = @ + 1],
                         char_control)
       \/ \E e \in IoErrors :
            /\ Return(Err(IoError(e)), "read_failed", Bump("reads"), char_control)
            /\ UNCHANGED <<wire, num_bytes, read_buf>>
    /\ UNCHANGED <<closed, stdin, mtu, iter, ran>>

(* ---------------------------- environment ------------------------------ *)
Serving == pc \in {"select", "reading"}

\* the central writes to the characteristic
CentralWrite ==
    /\ Serving /\ ~closed /\ cnt.produced < MaxEvents
    /\ \E m \in Mtus : char_control' = Append(char_control, WriteEvt(m))
    /\ cnt' = Bump("produced")
    /\ UNCHANGED <<pc, handles, closed, stdin, request, returns, cause, iter, ran>>

\* the central subscribes to notifications
CentralNotify ==
    /\ Serving /\ ~closed /\ cnt.produced < MaxEvents
    /\ char_control' = Append(char_control, NotifyEvt)
    /\ cnt' = Bump("produced")
    /\ UNCHANGED <<pc, handles, closed, stdin, request, returns, cause, iter, ran>>

\* the control stream's producer goes away
StreamClose ==
    /\ Serving /\ ~closed
    /\ closed' = TRUE
    /\ UNCHANGED <<pc, handles, char_control, stdin, request, returns, cause,
                   cnt, iter, ran>>

\* stdin completes: a line, end of input or a read error
OperatorInput ==
    /\ pc # "done" /\ stdin = "pending"
    /\ stdin' \in {"line", "eof", "error"}
    /\ UNCHANGED <<pc, handles, char_control, closed, request, returns, cause,
                   cnt, iter, ran>>

Next ==
    \/ Advertise
    \/ ServeGatt
    \/ SelectCancel
    \/ SelectClosed
    \/ SelectNotify
    \/ SelectWrite
    \/ ReadDone
    \/ CentralWrite
    \/ CentralNotify
    \/ StreamClose
    \/ OperatorInput

Spec == Init /\ [][Next]_vars

\* The runtime polls the task whenever one of its futures is ready, and the
\* adapter answers a registration: the set-up steps and the resolution of
\* a select with a ready branch are taken.  When the central's bytes (or an
\* error) arrive on the accepted stream is up to the central: ReadDone and
\* the environment's steps carry no fairness.
FairSpec ==
    /\ Spec
    /\ WF_vars(Advertise)
    /\ WF_vars(ServeGatt)
    /\ WF_vars(SelectCancel)
    /\ WF_vars(SelectClosed \/ SelectNotify \/ SelectWrite)

TypeOK ==
    /\ pc \in {"start", "advertised", "select", "reading", "done"}
    /\ Len(returns) <= 1

(* ------------------------------ claims --------------------------------- *)
Released ==
    /\ advActive = 0 /\ appActive = 0
    /\ adv_handle = "dropped" /\ app_handle = "dropped"

\* the bytes the read returned
BytesRead == SubSeq(read_buf, 1, num_bytes)

\* the read of the accepted request completed with Ok(num_bytes)
ReadSucceeded == cnt.decodes = 1

\* C1: when the read of the first accepted WriteRequest delivers all of
\* the central's bytes S, S is valid UTF-8 and fits the MTU, the run has
\* ended with Ok(S) and both registrations are released.
C1_ValidWriteReturnsName ==
    (ReadSucceeded /\ num_bytes = Len(wire) /\ Len(wire) <= mtu
        /\ from_utf8(wire).valid)
    => /\ pc = "done"
       /\ returns = <<Ok(wire)>>
       /\ Released

C1_Witness ==
    /\ pc = "done" /\ ReadSucceeded
    /\ wire = <<195, 169>> /\ num_bytes = 2
    /\ returns = <<Ok(<<195, 169>>)>>
    /\ Released

DecodeFailureMessage == "Written proxy device name is not a UTF8-encoded string"

\* C2: when the bytes read from the accepted WriteRequest are not valid
\* UTF-8, the run has ended with the decode-failure error, both
\* registrations are released, exactly one write was accepted, and from
\* then on nothing is polled, accepted or returned again.
C2_InvalidWriteFails ==
    [][ (ReadSucceeded' /\ ~from_utf8(BytesRead').valid)
        => /\ pc' = "done"
           /\ Len(returns') = 1
           /\ ~returns'[1].ok
           /\ returns'[1].error.kind = "Failed"
           /\ returns'[1].error.message = DecodeFailureMessage
           /\ Released'
           /\ cnt'.accepts = 1
           /\ (ReadSucceeded => UNCHANGED <<pc, returns, cnt, iter>>) ]_vars

C2_Witness ==
    /\ pc = "done" /\ ReadSucceeded
    /\ BytesRead = <<255, 112>>
    /\ returns = <<Err(DecodeError(Utf8Err(0, 1)))>>
    /\ Released

LoopBranches ==
    {"decoded", "decode_failed", "accept_failed", "read_failed", "closed", "cancelled"}

\* C3: a run that entered the wait loop ends with each handle released
\* exactly once, and at no time is more than one advertisement or GATT
\* registration active or a handle released twice.
C3_TeardownExactlyOnce ==
    /\ advActive \in {0, 1} /\ appActive \in {0, 1}
    /\ advReleases <= 1 /\ appReleases <= 1
    /\ (pc = "done" /\ iter > 0)
        => /\ cause \in LoopBranches
           /\ advReleases = 1 /\ appReleases = 1
           /\ advActive = 0 /\ appActive = 0

C3_Witness ==
    /\ pc = "done" /\ cause = "read_failed"
    /\ advReleases = 1 /\ appReleases = 1

BothReady == pc = "select" /\ ReadyBranches = {"cancel", "event"}

\* C4: an iteration that starts with both sources ready runs the handler
\* of exactly one branch, a run never hands back two outcomes, and an
\* outcome once returned never changes.
C4_OneBranchOneOutcome ==
    [][ /\ (BothReady /\ iter' # iter)
            => /\ iter' = iter + 1
               /\ Cardinality(ran') = 1
               /\ \/ pc' = "done" /\ Len(returns') = 1
                  \/ pc' # "done" /\ returns' = <<>>
        /\ Len(returns') <= 1
        /\ (returns # <<>> => returns' = returns) ]_vars

C4_Witness ==
    /\ pc = "done" /\ cause = "cancelled"
    /\ cnt.leftover > 0 /\ Len(returns) = 1

SelectEvent == SelectClosed \/ SelectNotify \/ SelectWrite

\* C5: with both sources ready the select resolves one way only: the
\* cancel branch and the event branch are never both able to take the
\* iteration from the same state.
C5_ConsistentTieBreak ==
    BothReady => ~(ENABLED SelectCancel /\ ENABLED SelectEvent)

\* C6: handling a NotifyRequest leaves the run listening with no outcome
\* and both registrations active, and a WriteRequest at the head of the
\* stream after a NotifyRequest can still be accepted.
C6_NotifyKeepsListening ==
    /\ [][ cnt'.notifies # cnt.notifies
            => /\ pc = "select" /\ pc' = "select"
               /\ returns' = <<>>
               /\ cause' = "none"
               /\ adv_handle' = "live" /\ app_handle' = "live"
               /\ advActive' = 1 /\ appActive' = 1
               /\ advReleases' = 0 /\ appReleases' = 0 ]_vars
    /\ [](( /\ pc = "select" /\ cnt.notifies > 0
            /\ char_control # <<>> /\ Head(char_control).type = "Write")
          => ENABLED SelectWrite)

C6_Witness ==
    /\ pc = "done" /\ cnt.notifies = 2
    /\ cnt.accepts = 1 /\ cause = "decoded"
    /\ returns = <<Ok(<<112>>)>>

\* C7: once stdin has completed while the run is in the loop, no control
\* event is taken, no write accepted, no read completed and no notify
\* handled, and the run can only end as cancelled with both handles
\* released.
C7_CancellationImmediate ==
    [][ (stdin # "pending" /\ pc \in {"select", "reading"})
        => /\ cnt'.taken = cnt.taken
           /\ cnt'.accepts = cnt.accepts
           /\ cnt'.reads = cnt.reads
           /\ cnt'.notifies = cnt.notifies
           /\ (pc' = "done" => cause' = "cancelled" /\ Released') ]_vars

\* the outcome of a run the stream's end terminated
StreamClosedOutcome == Err(FailedToCollect)

\* C8: a run the operator cancelled before any write arrived ends with an
\* error that is neither the stream-closed error nor a decode failure.
C8_CancelledIsDistinct ==
    (pc = "done" /\ cause = "cancelled" /\ cnt.accepts = 0)
    => /\ ~returns[1].ok
       /\ returns[1] # StreamClosedOutcome
       /\ returns[1].error.message # DecodeFailureMessage

AdvertiseFailed == pc = "done" /\ cnt.advAttempts = 1 /\ adv_handle = "none"
ServeFailed == pc = "done" /\ cnt.appAttempts = 1 /\ app_handle = "none"

IsAdapterError(r) == ~r.ok /\ r.error.kind \in AdapterErrors

\* C9: a failed advertisement registration returns the adapter's error
\* with no GATT registration attempted and nothing released; a failed
\* GATT registration returns the adapter's error before the loop, with
\* the advertisement released once and the GATT handle never released.
C9_RegistrationFailure ==
    /\ AdvertiseFailed
        => /\ Len(returns) = 1 /\ IsAdapterError(returns[1])
           /\ cnt.appAttempts = 0 /\ iter = 0
           /\ advReleases = 0 /\ appReleases = 0
           /\ advActive = 0 /\ appActive = 0
    /\ ServeFailed
        => /\ Len(returns) = 1 /\ IsAdapterError(returns[1])
           /\ iter = 0 /\ cnt.taken = 0
           /\ advReleases = 1 /\ appReleases = 0
           /\ advActive = 0 /\ appActive = 0

C9_Witness ==
    /\ ServeFailed /\ adv_handle = "dropped"
    /\ advReleases = 1 /\ appReleases = 0

\* C10: a run that ended on a failed accept or a failed read returns that
\* I/O error, decoded nothing, took no control event after the failing
\* request and released both registrations.
C10_IoErrorPropagates ==
    (pc = "done" /\ cause \in {"accept_failed", "read_failed"})
    => /\ Len(returns) = 1
       /\ ~returns[1].ok
       /\ returns[1].error.kind = "Io"
       /\ returns[1].error.message \in IoErrors
       /\ cnt.decodes = 0
       /\ cnt.taken = cnt.notifies + 1
       /\ cnt.accepts = (IF cause = "read_failed" THEN 1 ELSE 0)
       /\ cnt.reads = cnt.accepts
       /\ Released

C10_Witness ==
    /\ pc = "done" /\ cause = "read_failed"
    /\ returns = <<Err(IoError("ConnectionReset"))>>
    /\ cnt.leftover > 0 /\ Released

\* write requests taken from the stream (accepted or not)
WritesTaken == cnt.taken - cnt.notifies

\* C11: at most one write request is taken, accepted and read in a run; an
\* accepted request is read by one read operation, and once the write has
\* been handled the run is over whatever is still queued.
C11_AtMostOneWrite ==
    /\ WritesTaken \in {0, 1}
    /\ cnt.accepts \in {0, 1} /\ cnt.accepts <= WritesTaken
    /\ cnt.reads <= cnt.accepts /\ cnt.decodes <= cnt.reads
    /\ (WritesTaken = 1) => pc \in {"reading", "done"}
    /\ (cnt.reads = 1) => pc = "done"
    /\ (pc = "done" /\ cnt.accepts = 1) => cnt.reads = 1
    /\ (pc = "reading") => (cnt.accepts = 1 /\ cnt.reads = 0)

C11_Witness ==
    /\ pc = "done" /\ cnt.accepts = 1 /\ cnt.reads = 1
    /\ cnt.leftover = 2 /\ cause = "decode_failed"

BothLive ==
    /\ adv_handle = "live" /\ app_handle = "live"
    /\ advActive = 1 /\ appActive = 1

\* C12: the GATT registration is attempted only with the advertisement
\* registered, and a select only resolves (to the cancel branch or to a
\* control event) with both registrations active.
C12_StartupOrder ==
    [][ /\ (cnt'.appAttempts # cnt.appAttempts)
            => (adv_handle = "live" /\ advActive = 1 /\ cnt.advAttempts = 1)
        /\ (iter' # iter \/ cnt'.taken # cnt.taken) => BothLive ]_vars

C12_Witness ==
    /\ pc = "select" /\ iter = 1 /\ cnt.taken = 1 /\ BothLive

\* C13: an iteration takes at most one control event, and while the read
\* of an accepted write is pending the select is not resolved and no
\* control event is taken from the stream.
C13_OneEventPerIteration ==
    [][ /\ cnt'.taken \in {cnt.taken, cnt.taken + 1}
        /\ (cnt'.taken # cnt.taken) => iter' = iter + 1
        /\ iter' \in {iter, iter + 1}
        /\ (pc = "reading")
            => /\ cnt'.taken = cnt.taken
               /\ iter' = iter
               /\ (pc' = "done" \/ Len(char_control') >= Len(char_control)) ]_vars

C13_Witness ==
    /\ pc = "reading" /\ Len(char_control) = 2 /\ cnt.taken = 1

StreamEnded == closed /\ char_control = <<>>

\* C14: when the select resolves with the stream ended and no write
\* handled, the run is over: it returns an error, both registrations are
\* released and no event is taken; with stdin still pending it ends on
\* the stream-closed branch.  An ended stream never yields an event.
C14_StreamEndTerminates ==
    [][ /\ (pc = "select" /\ StreamEnded /\ iter' # iter)
            => /\ pc' = "done"
               /\ Len(returns') = 1 /\ ~returns'[1].ok
               /\ returns'[1] = Err(FailedToCollect)
               /\ Released'
               /\ (stdin = "pending" => cause' = "closed")
        /\ StreamEnded => cnt'.taken = cnt.taken ]_vars

C14_Witness ==
    /\ pc = "done" /\ cause = "closed" /\ closed
    /\ cnt.accepts = 0 /\ stdin = "pending" /\ Released

\* the first n bytes the central wrote
WirePrefix == SubSeq(wire, 1, num_bytes)

\* C15: after a read that returned n bytes into the MTU-sized buffer, the
\* result is the decoding of the first n bytes the central wrote and of
\* nothing else: a success is exactly those n <= MTU bytes, a failure
\* reports their decode error, and a read of 0 bytes is Ok("").
C15_DecodesBytesRead ==
    ReadSucceeded
    => /\ Len(read_buf) = mtu /\ num_bytes <= mtu
       /\ Len(returns) = 1
       /\ returns[1].ok
            => /\ returns[1].value = WirePrefix
               /\ Len(returns[1].value) = num_bytes
       /\ ~returns[1].ok
            => /\ ~from_utf8(WirePrefix).valid
               /\ returns[1].error = DecodeError(from_utf8(WirePrefix))
       /\ from_utf8(WirePrefix).valid => returns[1].ok
       /\ (num_bytes = 0) => returns = <<Ok(<<>>)>>

C15_Witness ==
    /\ pc = "done" /\ ReadSucceeded
    /\ mtu = 1 /\ wire = <<112, 0>> /\ num_bytes = 1
    /\ returns = <<Ok(<<112>>)>>

\* C16: once stdin has completed, the run eventually ends.
C16_CancelEventuallyEnds == (stdin # "pending") ~> (pc = "done")

\* C17: the cancel branch does not look at what stdin completed with: in
\* the loop a line, the end of input and a read error each let the cancel
\* branch resolve the select, and its step is the same break to the
\* failure return.
C17_AnyStdinCompletionCancels ==
    /\ []((pc = "select" /\ stdin \in {"line", "eof", "error"})
            => ENABLED SelectCancel)
    /\ [][ (pc = "select" /\ iter' # iter /\ ran' = {"cancel"})
            => /\ stdin \in {"line", "eof", "error"}
               /\ pc' = "done"
               /\ returns' = <<Err(FailedToCollect)>>
               /\ cause' = "cancelled"
               /\ cnt'.taken = cnt.taken
               /\ Released' ]_vars

C17_Witness ==
    /\ pc = "done" /\ cause = "cancelled" /\ stdin = "eof"
    /\ returns = <<Err(FailedToCollect)>>

\* C18: while the run is in the wait loop, a write being handled
\* included, both registrations are active and unreleased; a handle is
\* only ever released once the outcome has been returned.
C18_RegistrationsOutliveWait ==
    /\ Serving => (BothLive /\ advReleases = 0 /\ appReleases = 0)
    /\ (advReleases > 0 \/ appReleases > 0) => (pc = "done" /\ Len(returns) = 1)

C18_Witness ==
    /\ pc = "reading" /\ BothLive /\ stdin # "pending" /\ char_control # <<>>

====
